---- MODULE Spec2Model ----
(***************************************************************************)
(* The tracing allocator of aws-c-common (source/memtrace.c): a facade     *)
(* over an inner allocator U that records every live allocation in a map   *)
(* keyed by address, keeps an atomic byte counter, and registers call      *)
(* stacks by fingerprint.  Client threads call the facade concurrently;    *)
(* each facade call is broken into the steps at which it touches shared    *)
(* state (the inner allocator, the atomic counter, the mutex).             *)
(***************************************************************************)
EXTENDS Integers, Sequences, FiniteSets, TLC

(* ------------------------------ bounds -------------------------------- *)
MaxCalls == 3          \* calls on the tracer per run
MaxSize == 2           \* largest request size, in bytes
MaxTime == 1           \* last value of the wall clock, in seconds
MaxPairs == 1          \* acquire/release pairs per thread in the paired load

Threads == {1, 2}      \* client threads
Addrs == {1, 2}        \* addresses the inner allocator can hand out
LeakAddrs == {1, 2, 3} \* the same for a program that keeps three blocks at a time
Sizes == 0 .. MaxSize
Inners == {"heap", "pool"}              \* candidate inner allocators U
Bookkeepers == {"null", "custom"}       \* bookkeeping argument B (null: default)
FrameRequests == {0, 1, 128, 129, 1000} \* frames_per_stack arguments of new
WalkDepths == 0 .. 3   \* depths the platform stack walker may report

(* ------------------------- program constants -------------------------- *)
AWS_MEMTRACE_NONE == 0
AWS_MEMTRACE_BYTES == 1
AWS_MEMTRACE_STACKS == 2
FRAMES_TO_SKIP == 2
DefaultFrames == 8
MaxFrames == 128
Levels == {AWS_MEMTRACE_NONE, AWS_MEMTRACE_BYTES, AWS_MEMTRACE_STACKS}

VARIABLES
    phase,             \* "new" (before aws_mem_tracer_new), "live", "destroyed", "aborted"
    newArgs,           \* the arguments the caller passes to aws_mem_tracer_new
    level,             \* tracer->level
    frames_per_stack,  \* tracer->frames_per_stack
    allocator,         \* tracer->allocator (U)
    system_allocator,  \* tracer->system_allocator (B)
    allocated,         \* tracer->allocated, the atomic byte counter
    mutex,             \* tracer->mutex: 0 when free, else the holding thread
    allocs,            \* tracer->allocs: address -> alloc_info
    stacks,            \* tracer->stacks: stack hash -> stack_trace
    uLive,             \* addresses currently allocated in the inner allocator
    held,              \* client side: address -> size, the allocations a client may release/realloc
    now,               \* the last value time(NULL) returned
    pc,                \* per thread: where it is inside its facade call
    call,              \* per thread: the facade call (operation, arguments, inner call, result)
    loc,               \* per thread: locals of s_alloc_tracer_track / _untrack
    stack_info,        \* tracer->stack_info: stack hash -> stack_metadata, during a dump
    lastDump,          \* ghost: what the last dump logged (with the allocation map and the
                       \* stat map it logged from), if no track/untrack step has
                       \* run since it read the tracer's state; whether the same holds
                       \* of the dump before it; whether such a step has run since the
                       \* running dump read the state
    destroyRet,        \* what aws_mem_tracer_destroy returned
    innerArg,          \* ghost: the inner allocator that was passed to aws_mem_tracer_new
    ncalls,            \* facade calls started so far
    env,               \* the run's environment: the threads that call the facade, the
                       \* call sites they call from, the depths the stack walker reports,
                       \* the sizes they ask for, the clock's last value, the number of
                       \* calls they make, what was allocated from U beforehand
    solo               \* ghost: the facade call sequence that runs with no other call in flight

vars == <<phase, newArgs, level, frames_per_stack, allocator, system_allocator,
          allocated, mutex, allocs, stacks, stack_info, uLive, held, now, pc, call,
          loc, lastDump, destroyRet, innerArg, ncalls, env, solo>>

(* ------------------------------ helpers ------------------------------- *)

NoInner == [f |-> "none", a1 |-> 0, a2 |-> 0, a3 |-> 0, r |-> 0]
NoCall == [op |-> "none", ptr |-> 0, num |-> 0, size |-> 0, old |-> 0,
           inner |-> NoInner, ret |-> 0]
NoAlloc == [size |-> 0, time |-> 0, stack |-> 0]
NoLoc == [ptr |-> 0, size |-> 0, alloc |-> NoAlloc, depth |-> 0, frames |-> <<>>, id |-> 0,
          bytes |-> 0, num_allocs |-> 0]
NoSolo == [t |-> 0, op |-> "none", ptr |-> 0, ret |-> 0, size |-> 0, old |-> 0, tracked |-> FALSE,
           bytes |-> 0, count |-> 0]
NoDump == [valid |-> FALSE, again |-> FALSE, dirty |-> FALSE, bytes |-> 0, count |-> 0,
           leaks |-> <<>>, sections |-> FALSE, by_size |-> <<>>, by_count |-> <<>>,
           logged |-> FALSE, map |-> <<>>, info |-> <<>>]
\* ghost: a step of track or untrack forgets the last dump and marks the running one
Touched == [NoDump EXCEPT !.dirty = TRUE]

\* sum of the size fields of all entries of an address -> alloc_info map
RECURSIVE SumSizes(_)
SumSizes(m) ==
    IF DOMAIN m = {} THEN 0
    ELSE LET k == CHOOSE x \in DOMAIN m : TRUE
         IN m[k].size + SumSizes([x \in DOMAIN m \ {k} |-> m[x]])

\* the hash table with a new entry
HashPut(table, key, value) ==
    [k \in DOMAIN table \cup {key} |-> IF k = key THEN value ELSE table[k]]

\* an insert that never finds the key taken
DuplicateKeyNever(table, key) == FALSE

\* the insert into the allocation map: a key that is already there is a fatal
\* invariant violation
DuplicateKey(table, key) == key \in DOMAIN table

\* aws_hash_table_remove_element
HashRemove(table, key) == [k \in DOMAIN table \ {key} |-> table[k]]

Quiescent == \A t \in Threads : pc[t] = "idle"

(* --------------------------- construction ----------------------------- *)
\* an init that ignores the result of the probe
InitLevelUnclamped(lvl, probe) == lvl

\* s_alloc_tracer_init: clamp the level when the stack probe finds no frame
InitLevel(lvl, probe) ==
    IF probe = 0
    THEN (IF lvl > AWS_MEMTRACE_BYTES THEN AWS_MEMTRACE_BYTES ELSE lvl)
    ELSE lvl

\* a frame budget that is not clamped at the top
InitFramesUnclamped(req) == IF req # 0 THEN req ELSE DefaultFrames

\* s_alloc_tracer_init: the frame budget of a STACKS tracer
InitFrames(req) ==
    LET clamped == IF req > MaxFrames THEN MaxFrames ELSE req
    IN IF clamped # 0 THEN clamped ELSE DefaultFrames

\* aws_mem_tracer_new: a null bookkeeping allocator means the default one
InitSystemAllocator(b) == IF b = "null" THEN "default" ELSE b

\* the initial states: the caller is about to call aws_mem_tracer_new with one of
\* args, in environment e, with budget facade calls to come
InitWith(args, e, used) ==
    /\ phase = "new"
    /\ newArgs \in args
    /\ level = AWS_MEMTRACE_NONE
    /\ frames_per_stack = 0
    /\ allocator = "none"
    /\ system_allocator = "none"
    /\ allocated = 0
    /\ mutex = 0
    /\ allocs = <<>>
    /\ stacks = <<>>
    /\ stack_info = <<>>
    \* an allocation may have been made from U before the tracer is installed
    /\ \E pre \in {{}, {Cardinality(Addrs)}} :
          /\ uLive = pre
          /\ held = [a \in pre |-> 1]
          /\ env = [e EXCEPT !.pre = pre]
    /\ now = 0
    /\ pc = [t \in Threads |-> "idle"]
    /\ call = [t \in Threads |-> NoCall]
    /\ loc = [t \in Threads |-> NoLoc]
    /\ lastDump = NoDump
    /\ destroyRet = "none"
    /\ innerArg = "none"
    /\ ncalls = used
    /\ solo = NoSolo

\* every combination of arguments of aws_mem_tracer_new
AllArgs ==
    [allocator : Inners, system_allocator : Bookkeepers, level : Levels,
     frames_per_stack : FrameRequests, probe : {0, 1}]

\* one call of aws_mem_tracer_new per level
LevelArgs ==
    {[allocator |-> "heap", system_allocator |-> "null", level |-> AWS_MEMTRACE_NONE,
      frames_per_stack |-> 0, probe |-> 1],
     [allocator |-> "pool", system_allocator |-> "custom", level |-> AWS_MEMTRACE_BYTES,
      frames_per_stack |-> 0, probe |-> 1],
     [allocator |-> "heap", system_allocator |-> "custom", level |-> AWS_MEMTRACE_STACKS,
      frames_per_stack |-> 0, probe |-> 1]}

\* threads 1 and 2 call concurrently from one site, with requests of zero or MaxSize
\* bytes, within one second; the walker fails or sees the caller
Concurrent == [threads |-> Threads, sites |-> {1}, walker |-> {0, 3},
               sizes |-> {0, MaxSize}, clock |-> 0, calls |-> MaxCalls, pre |-> {},
               addrs |-> Addrs]
\* one thread calls from two sites, with requests of any size, while the clock
\* advances; the walker may report any depth
Sequential == [threads |-> {1}, sites |-> {1, 2}, walker |-> WalkDepths,
               sizes |-> Sizes, clock |-> MaxTime, calls |-> MaxCalls, pre |-> {},
               addrs |-> Addrs]
\* the paired load: every thread does MaxPairs times acquire, then release of what
\* it got
Paired == [Concurrent EXCEPT !.calls = 2 * Cardinality(Threads) * MaxPairs]

\* a program that leaks: one thread allocates from two sites, up to three blocks of
\* one or MaxSize bytes at a time, while the clock advances, and then dumps
Leaky == [Sequential EXCEPT !.walker = {0, 3}, !.sizes = {1, MaxSize},
                            !.calls = MaxCalls + 1, !.addrs = LeakAddrs]

Init == InitWith(LevelArgs, Concurrent, 0)
InitSeq == InitWith(LevelArgs, Sequential, 0)
InitNew == InitWith(AllArgs, Sequential, MaxCalls - 1)
\* construction on a platform whose stack walker finds no frame
InitProbe == InitWith({a \in AllArgs : a.probe = 0 /\ a.frames_per_stack = 0
                                       /\ a.allocator = "heap"
                                       /\ a.system_allocator = "null"}, Concurrent, 0)
InitLeaky == InitWith({a \in LevelArgs : a.level # AWS_MEMTRACE_NONE}, Leaky, 0)
InitFair == InitWith({a \in LevelArgs : a.level = AWS_MEMTRACE_STACKS}, Concurrent, 0)
InitPaired == InitWith({a \in LevelArgs : a.level # AWS_MEMTRACE_NONE}, Paired, 0)

\* aws_mem_tracer_new + s_alloc_tracer_init
New ==
    /\ phase = "new"
    /\ phase' = "live"
    /\ level' = InitLevel(newArgs.level, newArgs.probe)
    /\ frames_per_stack' = IF level' = AWS_MEMTRACE_STACKS
                           THEN InitFrames(newArgs.frames_per_stack)
                           ELSE 0
    /\ allocator' = newArgs.allocator
    /\ system_allocator' = InitSystemAllocator(newArgs.system_allocator)
    /\ innerArg' = newArgs.allocator
    /\ allocated' = 0
    /\ UNCHANGED <<newArgs, mutex, allocs, stacks, stack_info, uLive, held, now, pc, call, loc,
                   lastDump, destroyRet, ncalls, env, solo>>

(* ------------------------------ tracking ------------------------------ *)
(* Steps of one thread that touch no shared state are taken together with  *)
(* the next step that does.  The inner acquire only makes an address of    *)
(* nobody's into the caller's, and the inner release only gives the        *)
(* caller's address back, so they commute with the steps of other threads  *)
(* and are joined to the neighbouring step of the same call.  The inner    *)
(* realloc frees the old address before untrack runs and stays a step of   *)
(* its own.                                                                *)

EntryCount == Cardinality(DOMAIN allocs)
OthersIdle(t) == \A u \in Threads \ {t} : pc[u] = "idle"
CanCall(t) == phase = "live" /\ t \in env.threads /\ pc[t] = "idle" /\ ncalls < env.calls

\* ghost: a call that starts while every other thread is idle is followed for as
\* long as no other thread starts a call; a release that directly follows the
\* acquire it undoes continues that acquire's record
SoloStart(t, op, p, n) ==
    IF ~OthersIdle(t) THEN NoSolo
    ELSE IF op = "release" /\ solo.t = t /\ solo.op = "acquired" /\ solo.ptr = p
         THEN [solo EXCEPT !.op = "releasing"]
    ELSE [t |-> t, op |-> op, ptr |-> p, ret |-> 0, size |-> n,
          old |-> IF p \in DOMAIN held THEN held[p] ELSE 0,
          tracked |-> p \in DOMAIN allocs /\ p \in DOMAIN held /\ allocs[p].size = held[p],
          bytes |-> allocated, count |-> EntryCount]

\* ghost: the record of the followed call when thread t returns p
SoloDone(s, t, p) ==
    IF s.t # t THEN s
    ELSE IF s.op = "acquire" THEN [s EXCEPT !.op = "acquired", !.ptr = p]
    ELSE IF s.op = "calloc" THEN [s EXCEPT !.op = "calloced", !.ptr = p]
    ELSE IF s.op = "realloc" THEN [s EXCEPT !.op = "realloced", !.ret = p]
    ELSE IF s.op = "releasing" THEN [s EXCEPT !.op = "released"]
    ELSE IF s.op = "release" THEN [s EXCEPT !.op = "freed"]
    ELSE s

\* the frames the stack walker sees inside s_alloc_tracer_track: the track
\* routine itself, the vtable function of the operation, then the caller
FrameOf(op, site) ==
    <<1, CASE op = "acquire" -> 2 [] op = "calloc" -> 3 [] OTHER -> 4, 4 + site>>

\* aws_backtrace(stack_frames, max): the first d frames, d at most max
Backtrace(op, site, d) == SubSeq(FrameOf(op, site), 1, d)

\* the captures a track call can see: none unless the level is STACKS
Captures ==
    IF level = AWS_MEMTRACE_STACKS
    THEN {c \in env.sites \X env.walker :
             /\ c[2] <= FRAMES_TO_SKIP + frames_per_stack
             /\ (c[2] = 0 => c[1] = 1)}
    ELSE {<<1, 0>>}

\* aws_hash_byte_cursor_ptr over the captured frame pointers
RECURSIVE Hash(_)
Hash(frames) ==
    IF frames = <<>> THEN 0
    ELSE Hash(SubSeq(frames, 1, Len(frames) - 1)) * 16 + frames[Len(frames)]

\* the size under which the facade tracks the block it returns
TrackedSize(c) == IF c.op = "calloc" THEN c.num * c.size ELSE c.size

\* a tracer that tracks at every level
TrackSkipsNever == FALSE

\* an alloc_info whose size is left at the zero that calloc gave it
NewAllocInfoNoSize(n, tm, id) == [size |-> 0, time |-> tm, stack |-> id]

\* s_alloc_tracer_track: the alloc_info it fills in
NewAllocInfo(n, tm, id) == [size |-> n, time |-> tm, stack |-> id]

\* a counter that goes up by one per allocation
TrackedBytesByOne(bytes, n) == bytes + 1

\* aws_atomic_fetch_add(&tracer->allocated, size)
TrackedBytes(bytes, n) == bytes + n

\* s_alloc_tracer_track and s_alloc_tracer_untrack return at once at level NONE
TrackSkips == level = AWS_MEMTRACE_NONE

\* the record of a call that has returned p; a pass-through call keeps the record
\* of the inner call it made
Returned(c, p) ==
    IF TrackSkips THEN [c EXCEPT !.ret = p] ELSE [NoCall EXCEPT !.op = c.op, !.ret = p]

\* return of s_trace_mem_acquire / _calloc / _realloc: the pointer goes to the client
ReturnPtr(t, c, p, s) ==
    /\ call' = [call EXCEPT ![t] = Returned(c, p)]
    /\ held' = [a \in DOMAIN held \cup {p} |-> IF a = p THEN TrackedSize(c) ELSE held[a]]
    /\ loc' = [loc EXCEPT ![t] = NoLoc]
    /\ pc' = [pc EXCEPT ![t] = "idle"]
    /\ solo' = SoloDone(s, t, p)

\* a track that hashes the frame buffer whatever the walker returned; the buffer
\* holds what the stack held before
StackIdOfBuffer(frames, d) == Hash(frames \o <<1>>)

\* s_alloc_tracer_track: if (stack_depth) the hash of the captured frames, else the
\* zero that calloc left in alloc->stack
StackId(frames, d) == IF d # 0 THEN Hash(frames) ELSE 0

\* s_alloc_tracer_track(tracer, p, n) up to its first aws_mutex_lock: nothing at level
\* NONE; else add n to the counter, fill the alloc_info (time(NULL) never runs
\* backwards: it returns the last value read or a later one) and, at level STACKS,
\* capture and hash the stack
TrackEnter(t, c, p, n, s) ==
    IF TrackSkips
    THEN /\ ReturnPtr(t, c, p, s)
         /\ UNCHANGED <<allocated, now, lastDump>>
    ELSE /\ allocated' = TrackedBytes(allocated, n)
         /\ \E cap \in Captures, tm \in now .. env.clock :
               LET d == cap[2]
                   frames == Backtrace(c.op, cap[1], d)
                   id == StackId(frames, d)
               IN /\ loc' = [loc EXCEPT ![t] =
                                [NoLoc EXCEPT !.ptr = p, !.size = n,
                                    !.alloc = NewAllocInfo(n, tm, id),
                                    !.depth = d, !.frames = frames, !.id = id]]
                  /\ now' = tm
                  /\ pc' = [pc EXCEPT ![t] = IF d # 0 THEN "stack_lock" ELSE "track_lock"]
         /\ call' = [call EXCEPT ![t] = c]
         /\ solo' = s
         /\ lastDump' = Touched
         /\ UNCHANGED held

\* s_trace_mem_acquire: ptr = aws_mem_acquire(tracer->allocator, size); track(ptr, size)
Acquire(t, n) ==
    /\ CanCall(t)
    /\ \E p \in env.addrs \ uLive :
          /\ uLive' = uLive \cup {p}
          /\ TrackEnter(t, [NoCall EXCEPT !.op = "acquire", !.size = n,
                               !.inner = [NoInner EXCEPT !.f = "acquire", !.a1 = n, !.r = p]],
                        p, n, SoloStart(t, "acquire", 0, n))
    /\ ncalls' = ncalls + 1
    /\ UNCHANGED <<phase, newArgs, level, frames_per_stack, allocator, system_allocator,
                   mutex, allocs, stacks, stack_info, destroyRet, innerArg, env>>

\* s_trace_mem_calloc: ptr = aws_mem_calloc(tracer->allocator, num, size);
\* track(ptr, num * size)
Calloc(t, k, n) ==
    /\ CanCall(t)
    /\ \E p \in env.addrs \ uLive :
          /\ uLive' = uLive \cup {p}
          /\ TrackEnter(t, [NoCall EXCEPT !.op = "calloc", !.num = k, !.size = n,
                               !.inner = [NoInner EXCEPT !.f = "calloc", !.a1 = k,
                                                         !.a2 = n, !.r = p]],
                        p, k * n, SoloStart(t, "calloc", 0, k * n))
    /\ ncalls' = ncalls + 1
    /\ UNCHANGED <<phase, newArgs, level, frames_per_stack, allocator, system_allocator,
                   mutex, allocs, stacks, stack_info, destroyRet, innerArg, env>>

\* s_trace_mem_realloc, first step: aws_mem_realloc(tracer->allocator, &new_ptr,
\* old_size, new_size) resizes in place or moves the block, which frees ptr
Realloc(t, p, n) ==
    /\ CanCall(t)
    /\ p \in DOMAIN held
    /\ n > 0
    /\ held' = [a \in DOMAIN held \ {p} |-> held[a]]
    /\ \E q \in {p} \cup (env.addrs \ uLive) :
          /\ uLive' = (uLive \ {p}) \cup {q}
          /\ call' = [call EXCEPT ![t] = [NoCall EXCEPT !.op = "realloc", !.ptr = p,
                         !.old = held[p], !.size = n,
                         !.inner = [NoInner EXCEPT !.f = "realloc", !.a1 = p,
                                                   !.a2 = held[p], !.a3 = n, !.r = q]]]
    /\ loc' = [loc EXCEPT ![t] = [NoLoc EXCEPT !.ptr = p]]
    /\ pc' = [pc EXCEPT ![t] = "untrack"]
    /\ ncalls' = ncalls + 1
    /\ solo' = SoloStart(t, "realloc", p, n)
    /\ UNCHANGED <<phase, newArgs, level, frames_per_stack, allocator, system_allocator,
                   allocated, mutex, allocs, stacks, stack_info, now, lastDump, destroyRet, innerArg, env>>

\* a realloc that tracks the new block under the old size
ReallocTrackedOld(c) == c.old

\* s_trace_mem_realloc: the size it passes to track(new_ptr, new_size)
ReallocTrackedSize(c) == c.size

\* s_trace_mem_realloc: track(new_ptr, new_size) after the untrack
ReallocTrack(t) ==
    /\ phase = "live"
    /\ pc[t] = "track"
    /\ TrackEnter(t, call[t], call[t].inner.r, ReallocTrackedSize(call[t]), solo)
    /\ UNCHANGED <<phase, newArgs, level, frames_per_stack, allocator, system_allocator,
                   mutex, allocs, stacks, stack_info, uLive, destroyRet, innerArg, ncalls, env>>

\* a lock that is handed out whether or not it is taken
LockNotExclusive(t, from, to) ==
    /\ phase = "live"
    /\ pc[t] = from
    /\ mutex' = t
    /\ pc' = [pc EXCEPT ![t] = to]

\* aws_mutex_lock(&tracer->mutex), at any of the places that take it
Lock(t, from, to) ==
    /\ phase = "live"
    /\ pc[t] = from
    /\ mutex = 0
    /\ mutex' = t
    /\ pc' = [pc EXCEPT ![t] = to]

TrackStackLock(t) ==
    /\ Lock(t, "stack_lock", "stack_cs")
    /\ UNCHANGED <<phase, newArgs, level, frames_per_stack, allocator, system_allocator,
                   allocated, allocs, stacks, stack_info, uLive, held, now, call, loc, lastDump,
                   destroyRet, innerArg, ncalls, env, solo>>

\* the stack_trace stored for a new hash: the frames after the skip prefix
NewStackTrace(frames, d) ==
    [depth |-> d - FRAMES_TO_SKIP, frames |-> SubSeq(frames, FRAMES_TO_SKIP + 1, d)]

\* a track that leaves the registry as it is
RegisterStackSkipped(registry, id, frames, d) == registry

\* a track that starts the registry afresh with its stack
RegisterStackAlone(registry, id, frames, d) == [k \in {id} |-> NewStackTrace(frames, d)]

\* s_alloc_tracer_track, for a hash that was created: the new stack_trace becomes the
\* value of the entry
RegisterStack(registry, id, frames, d) == HashPut(registry, id, NewStackTrace(frames, d))

\* s_alloc_tracer_track, under the mutex: aws_hash_table_create in tracer->stacks and,
\* for a new hash, store the frames; then unlock.  With fewer frames than the skip
\* prefix the unsigned stack_depth - FRAMES_TO_SKIP wraps and the memcpy runs off
\* the buffers: the process dies.
TrackStackCreate(t) ==
    /\ phase = "live"
    /\ pc[t] = "stack_cs"
    /\ IF loc[t].id \in DOMAIN stacks
       THEN UNCHANGED <<stacks, phase>>
       ELSE IF loc[t].depth < FRAMES_TO_SKIP
            THEN /\ phase' = "aborted"
                 /\ UNCHANGED stacks
            ELSE /\ stacks' = RegisterStack(stacks, loc[t].id, loc[t].frames, loc[t].depth)
                 /\ UNCHANGED phase
    /\ mutex' = 0
    /\ pc' = [pc EXCEPT ![t] = "track_lock"]
    /\ loc' = [loc EXCEPT ![t].depth = 0, ![t].frames = <<>>, ![t].id = 0]
    /\ lastDump' = Touched
    /\ UNCHANGED <<stack_info, newArgs, level, frames_per_stack, allocator, system_allocator,
                   allocated, allocs, uLive, held, now, call, destroyRet,
                   innerArg, ncalls, env, solo>>

TrackLock(t) ==
    /\ Lock(t, "track_lock", "track_cs")
    /\ UNCHANGED <<phase, newArgs, level, frames_per_stack, allocator, system_allocator,
                   allocated, allocs, stacks, stack_info, uLive, held, now, call, loc, lastDump,
                   destroyRet, innerArg, ncalls, env, solo>>

\* s_alloc_tracer_track, under the mutex: AWS_FATAL_ASSERT(AWS_OP_SUCCESS ==
\* aws_hash_table_put(&tracer->allocs, ptr, alloc, NULL)), unlock, and the facade
\* returns ptr
TrackPut(t) ==
    /\ phase = "live"
    /\ pc[t] = "track_cs"
    /\ IF DuplicateKey(allocs, loc[t].ptr)
       THEN /\ phase' = "aborted"
            /\ UNCHANGED <<allocs, mutex, call, held, loc, pc, solo, lastDump>>
       ELSE /\ allocs' = HashPut(allocs, loc[t].ptr, loc[t].alloc)
            /\ mutex' = 0
            /\ ReturnPtr(t, call[t], loc[t].ptr, solo)
            /\ lastDump' = Touched
            /\ UNCHANGED phase
    /\ UNCHANGED <<newArgs, level, frames_per_stack, allocator, system_allocator,
                   allocated, stacks, stack_info, uLive, now, destroyRet, innerArg, ncalls, env>>

(* ----------------------------- untracking ----------------------------- *)
\* a release that never reaches the inner allocator
InnerKept(live, ptr) == live

\* aws_mem_release(tracer->allocator, ptr): ptr is no longer allocated in U
InnerRelease(live, ptr) == live \ {ptr}

\* s_trace_mem_release at level NONE: untrack returns at once, then
\* aws_mem_release(tracer->allocator, ptr)
ReleaseNone(t, p) ==
    /\ CanCall(t)
    /\ TrackSkips
    /\ p \in DOMAIN held
    /\ held' = [a \in DOMAIN held \ {p} |-> held[a]]
    /\ uLive' = InnerRelease(uLive, p)
    /\ call' = [call EXCEPT ![t] = [NoCall EXCEPT !.op = "release", !.ptr = p,
                                       !.inner = [NoInner EXCEPT !.f = "release", !.a1 = p]]]
    /\ ncalls' = ncalls + 1
    /\ solo' = SoloDone(SoloStart(t, "release", p, 0), t, 0)
    /\ UNCHANGED <<phase, newArgs, level, frames_per_stack, allocator, system_allocator,
                   allocated, mutex, allocs, stacks, stack_info, now, pc, loc, lastDump, destroyRet,
                   innerArg, env>>

\* s_trace_mem_release: untrack(ptr) takes the mutex
Release(t, p) ==
    /\ CanCall(t)
    /\ ~TrackSkips
    /\ p \in DOMAIN held
    /\ mutex = 0
    /\ mutex' = t
    /\ held' = [a \in DOMAIN held \ {p} |-> held[a]]
    /\ call' = [call EXCEPT ![t] = [NoCall EXCEPT !.op = "release", !.ptr = p]]
    /\ loc' = [loc EXCEPT ![t] = [NoLoc EXCEPT !.ptr = p]]
    /\ pc' = [pc EXCEPT ![t] = "untrack_cs"]
    /\ ncalls' = ncalls + 1
    /\ solo' = SoloStart(t, "release", p, 0)
    /\ UNCHANGED <<phase, newArgs, level, frames_per_stack, allocator, system_allocator,
                   allocated, allocs, stacks, stack_info, uLive, now, lastDump, destroyRet, innerArg, env>>

\* s_trace_mem_realloc at level NONE: untrack(ptr) returns at once
UntrackNone(t) ==
    /\ phase = "live"
    /\ pc[t] = "untrack"
    /\ TrackSkips
    /\ pc' = [pc EXCEPT ![t] = "track"]
    /\ UNCHANGED <<phase, newArgs, level, frames_per_stack, allocator, system_allocator,
                   allocated, mutex, allocs, stacks, stack_info, uLive, held, now, call, loc, lastDump,
                   destroyRet, innerArg, ncalls, env, solo>>

\* s_trace_mem_realloc: untrack(ptr) takes the mutex
UntrackLock(t) ==
    /\ ~TrackSkips
    /\ Lock(t, "untrack", "untrack_cs")
    /\ UNCHANGED <<phase, newArgs, level, frames_per_stack, allocator, system_allocator,
                   allocated, allocs, stacks, stack_info, uLive, held, now, call, loc, lastDump,
                   destroyRet, innerArg, ncalls, env, solo>>

\* an untrack that takes the size of the record off the counter twice
UntrackedBytesTwice(bytes, record) == bytes - 2 * record.size

\* an untrack that leaves the counter alone
UntrackedBytesKept(bytes, record) == bytes

\* aws_atomic_fetch_sub(&tracer->allocated, alloc->size) for the record found
UntrackedBytes(bytes, record) == bytes - record.size

\* s_alloc_tracer_untrack, under the mutex: find ptr; if it is there, subtract its
\* recorded size, free the record and remove the entry; unlock.  s_trace_mem_release
\* then releases ptr to the inner allocator and returns; s_trace_mem_realloc goes on
\* to track(new_ptr, new_size).
UntrackRemove(t) ==
    /\ phase = "live"
    /\ pc[t] = "untrack_cs"
    /\ IF loc[t].ptr \in DOMAIN allocs
       THEN /\ allocated' = UntrackedBytes(allocated, allocs[loc[t].ptr])
            /\ allocs' = HashRemove(allocs, loc[t].ptr)
       ELSE UNCHANGED <<allocated, allocs>>
    /\ mutex' = 0
    /\ IF call[t].op = "release"
       THEN /\ uLive' = InnerRelease(uLive, loc[t].ptr)
            /\ call' = [call EXCEPT ![t] = [NoCall EXCEPT !.op = "release"]]
            /\ loc' = [loc EXCEPT ![t] = NoLoc]
            /\ pc' = [pc EXCEPT ![t] = "idle"]
            /\ solo' = SoloDone(solo, t, 0)
       ELSE /\ pc' = [pc EXCEPT ![t] = "track"]
            /\ UNCHANGED <<uLive, call, loc, solo>>
    /\ lastDump' = Touched
    /\ UNCHANGED <<phase, newArgs, level, frames_per_stack, allocator, system_allocator,
                   stacks, stack_info, held, now, destroyRet, innerArg, ncalls, env>>

(* ------------------------------ reporter ------------------------------ *)
\* the keys of a table in the order aws_hash_table_foreach visits them
RECURSIVE KeysInOrder(_)
KeysInOrder(S) ==
    IF S = {} THEN <<>>
    ELSE LET k == CHOOSE x \in S : \A y \in S : x <= y
         IN <<k>> \o KeysInOrder(S \ {k})

\* comparators of which one has its operands swapped
CompareSizeSwapped(kind, a, b) ==
    CASE kind = "time" -> IF a.time > b.time THEN 1 ELSE 0
      [] kind = "size" -> IF a.size > b.size THEN 1 ELSE 0
      [] OTHER -> IF b.count > a.count THEN 1 ELSE 0
CompareCountSwapped(kind, a, b) ==
    CASE kind = "time" -> IF a.time > b.time THEN 1 ELSE 0
      [] kind = "size" -> IF b.size > a.size THEN 1 ELSE 0
      [] OTHER -> IF a.count > b.count THEN 1 ELSE 0
CompareTimeSwapped(kind, a, b) ==
    CASE kind = "time" -> IF b.time > a.time THEN 1 ELSE 0
      [] kind = "size" -> IF b.size > a.size THEN 1 ELSE 0
      [] OTHER -> IF b.count > a.count THEN 1 ELSE 0

\* s_alloc_compare, s_stack_info_compare_size, s_stack_info_compare_count: 1 when a
\* is to come out after b
Compare(kind, a, b) ==
    CASE kind = "time" -> IF a.time > b.time THEN 1 ELSE 0
      [] kind = "size" -> IF b.size > a.size THEN 1 ELSE 0
      [] OTHER -> IF b.count > a.count THEN 1 ELSE 0

\* a queue that puts a new item in front of the items it ties with
RECURSIVE PushBeforeTies(_, _, _)
PushBeforeTies(kind, q, x) ==
    IF q = <<>> THEN <<x>>
    ELSE IF Compare(kind, x, Head(q)) = 0 THEN <<x>> \o q
    ELSE <<Head(q)>> \o PushBeforeTies(kind, Tail(q), x)

\* the priority queue: items come out in the order of the comparator, items that
\* the comparator does not tell apart in the order they went in.  Push puts x
\* before the first item that the comparator places after x.
RECURSIVE Push(_, _, _)
Push(kind, q, x) ==
    IF q = <<>> THEN <<x>>
    ELSE IF Compare(kind, Head(q), x) > 0 THEN <<x>> \o q
    ELSE <<Head(q)>> \o Push(kind, Tail(q), x)

\* aws_hash_table_foreach with s_insert_allocs / s_insert_stacks: push every value
RECURSIVE PushAll(_, _, _, _)
PushAll(kind, q, table, keys) ==
    IF keys = <<>> THEN q
    ELSE PushAll(kind, Push(kind, q, table[Head(keys)]), table, Tail(keys))

\* while (aws_priority_queue_size(..)) pop: the items in the order they are logged
RECURSIVE Drain(_, _)
Drain(kind, q) ==
    IF q = <<>> THEN <<>> ELSE <<Head(q)>> \o Drain(kind, Tail(q))

\* a stack_metadata as aws_mem_calloc returns it
NoStackInfo == [count |-> 0, size |-> 0, trace |-> <<>>]

\* a tally that keeps the size of the last record of a stack only
CollectStackStatsLast(info, alloc) ==
    LET old == IF alloc.stack \in DOMAIN info THEN info[alloc.stack] ELSE NoStackInfo
    IN [k \in DOMAIN info \cup {alloc.stack} |->
          IF k = alloc.stack
          THEN [old EXCEPT !.count = old.count + 1, !.size = alloc.size]
          ELSE info[k]]

\* s_collect_stack_stats for one record: find or create the entry of alloc->stack in
\* tracer->stack_info, then stack->count++ and stack->size += alloc->size
CollectStackStats(info, alloc) ==
    LET old == IF alloc.stack \in DOMAIN info THEN info[alloc.stack] ELSE NoStackInfo
    IN [k \in DOMAIN info \cup {alloc.stack} |->
          IF k = alloc.stack
          THEN [old EXCEPT !.count = old.count + 1, !.size = old.size + alloc.size]
          ELSE info[k]]

\* aws_hash_table_foreach(&tracer->allocs, s_collect_stack_stats, tracer)
RECURSIVE TallyInto(_, _, _)
TallyInto(info, table, keys) ==
    IF keys = <<>> THEN info
    ELSE TallyInto(CollectStackStats(info, table[Head(keys)]), table, Tail(keys))

\* the stat map after the tally pass over tracer->allocs
Tally(table) == TallyInto(<<>>, table, KeysInOrder(DOMAIN table))

\* s_collect_stack_trace over tracer->stack_info: the symbols of the frames registered
\* under the hash; the text stands for itself
Symbolize(info, registry) ==
    [id \in DOMAIN info |-> [info[id] EXCEPT !.trace = registry[id].frames]]

\* a dump that only looks at the level
DumpSkipsLevelOnly == level = AWS_MEMTRACE_NONE

\* s_alloc_tracer_dump, the test that makes a dump return at once
DumpSkips ==
    level = AWS_MEMTRACE_NONE \/ allocated = 0

\* aws_mem_tracer_dump: nothing to do, or go for the mutex.  The call record keeps
\* the number of the call and whether the dump went past the test.
Dump(t) ==
    /\ CanCall(t)
    /\ ncalls' = ncalls + 1
    /\ IF DumpSkips
       THEN /\ call' = [call EXCEPT ![t] = [NoCall EXCEPT !.op = "dump", !.num = ncalls']]
            /\ pc' = pc
       ELSE /\ call' = [call EXCEPT ![t] = [NoCall EXCEPT !.op = "dump", !.num = ncalls',
                                                          !.ret = 1]]
            /\ pc' = [pc EXCEPT ![t] = "dump_lock"]
    /\ UNCHANGED <<phase, newArgs, level, frames_per_stack, allocator, system_allocator,
                   allocated, mutex, allocs, stacks, stack_info, uLive, held, now, loc,
                   lastDump, destroyRet, innerArg, env, solo>>

DumpLock(t) ==
    /\ Lock(t, "dump_lock", "dump_cs")
    /\ UNCHANGED <<phase, newArgs, level, frames_per_stack, allocator, system_allocator,
                   allocated, allocs, stacks, stack_info, uLive, held, now, call, loc,
                   lastDump, destroyRet, innerArg, ncalls, env, solo>>

\* s_alloc_tracer_dump, under the mutex: read the entry count and the counter for the
\* summary line; at level STACKS fill tracer->stack_info (tally, then symbolize).  A
\* hash of the tally that the registry does not hold fails AWS_FATAL_ASSERT(stack_item).
DumpCollect(t) ==
    /\ phase = "live"
    /\ pc[t] = "dump_cs"
    /\ loc' = [loc EXCEPT ![t] = [NoLoc EXCEPT !.bytes = allocated,
                                               !.num_allocs = Cardinality(DOMAIN allocs)]]
    /\ IF level # AWS_MEMTRACE_STACKS
       THEN /\ pc' = [pc EXCEPT ![t] = "dump_log"]
            /\ UNCHANGED <<stack_info, phase>>
       ELSE IF DOMAIN Tally(allocs) \subseteq DOMAIN stacks
            THEN /\ stack_info' = Symbolize(Tally(allocs), stacks)
                 /\ pc' = [pc EXCEPT ![t] = "dump_log"]
                 /\ UNCHANGED phase
            ELSE /\ phase' = "aborted"
                 /\ stack_info' = Tally(allocs)
                 /\ pc' = pc
    /\ lastDump' = [lastDump EXCEPT !.dirty = FALSE]
    /\ UNCHANGED <<newArgs, level, frames_per_stack, allocator, system_allocator,
                   allocated, mutex, allocs, stacks, uLive, held, now, call,
                   destroyRet, innerArg, ncalls, env, solo>>

\* the "ALLOC <size> bytes" lines, each with the trace of its stack if it has one
LeakLines(table, info) ==
    LET popped == Drain("time", PushAll("time", <<>>, table, KeysInOrder(DOMAIN table)))
    IN [k \in 1 .. Len(popped) |->
          [alloc |-> popped[k],
           size |-> popped[k].size,
           trace |-> IF popped[k].stack # 0 THEN info[popped[k].stack].trace ELSE <<>>]]

\* the per-stack lines of one of the two rankings
StackLines(kind, info) ==
    Drain(kind, PushAll(kind, <<>>, info, KeysInOrder(DOMAIN info)))

\* a dump that forgets to clean the stat map up
KeptStackInfo(info) == info

\* what aws_hash_table_clean_up(&tracer->stack_info) leaves of the stat map
CleanedStackInfo(info) == <<>>

\* s_alloc_tracer_dump: the two per-stack sections are logged at level STACKS only
DumpsStackSections == level = AWS_MEMTRACE_STACKS

\* s_alloc_tracer_dump, under the mutex: log the leaks in order of allocation and, at
\* level STACKS, the stacks by bytes and by count; clean up the stat map; unlock
DumpLog(t) ==
    /\ phase = "live"
    /\ pc[t] = "dump_log"
    /\ lastDump' =
          [valid |-> ~lastDump.dirty, again |-> lastDump.valid, dirty |-> FALSE,
                bytes |-> loc[t].bytes, count |-> loc[t].num_allocs,
                logged |-> TRUE, map |-> allocs, info |-> stack_info,
                leaks |-> LeakLines(allocs, stack_info),
                sections |-> DumpsStackSections,
                by_size |-> IF DumpsStackSections
                            THEN StackLines("size", stack_info) ELSE <<>>,
                by_count |-> IF DumpsStackSections
                             THEN StackLines("count", stack_info) ELSE <<>>]
    /\ stack_info' = IF DumpsStackSections
                     THEN CleanedStackInfo(stack_info) ELSE stack_info
    /\ mutex' = 0
    /\ loc' = [loc EXCEPT ![t] = NoLoc]
    /\ pc' = [pc EXCEPT ![t] = "idle"]
    /\ UNCHANGED <<phase, newArgs, level, frames_per_stack, allocator, system_allocator,
                   allocated, allocs, stacks, uLive, held, now, call, destroyRet, innerArg,
                   ncalls, env, solo>>

(* ------------------------ observers and teardown ----------------------- *)
\* aws_mem_tracer_bytes: load the counter
Bytes(t) ==
    /\ CanCall(t)
    /\ ncalls' = ncalls + 1
    /\ call' = [call EXCEPT ![t] = [NoCall EXCEPT !.op = "bytes", !.ret = allocated]]
    /\ UNCHANGED <<phase, newArgs, level, frames_per_stack, allocator, system_allocator,
                   allocated, mutex, allocs, stacks, stack_info, uLive, held, now, pc, loc,
                   lastDump, destroyRet, innerArg, env, solo>>

\* s_alloc_tracer_init sets up the mutex and the allocation map only from level BYTES
\* on; at level NONE aws_mem_tracer_count and aws_mem_tracer_destroy work on the
\* zeroed fields, which may go well or end the process
ZeroedOutcomes == IF level >= AWS_MEMTRACE_BYTES THEN {"live"} ELSE {"live", "aborted"}

\* aws_mem_tracer_count: take the mutex
Count(t) ==
    /\ CanCall(t)
    /\ ncalls' = ncalls + 1
    /\ mutex = 0
    /\ mutex' = t
    /\ pc' = [pc EXCEPT ![t] = "count_cs"]
    /\ call' = [call EXCEPT ![t] = [NoCall EXCEPT !.op = "count"]]
    /\ phase' \in ZeroedOutcomes
    /\ UNCHANGED <<newArgs, level, frames_per_stack, allocator, system_allocator,
                   allocated, allocs, stacks, stack_info, uLive, held, now, loc,
                   lastDump, destroyRet, innerArg, env, solo>>

\* aws_mem_tracer_count, under the mutex: the entry count of tracer->allocs; unlock
CountRead(t) ==
    /\ phase = "live"
    /\ pc[t] = "count_cs"
    /\ call' = [call EXCEPT ![t].ret = Cardinality(DOMAIN allocs)]
    /\ mutex' = 0
    /\ pc' = [pc EXCEPT ![t] = "idle"]
    /\ UNCHANGED <<phase, newArgs, level, frames_per_stack, allocator, system_allocator,
                   allocated, allocs, stacks, stack_info, uLive, held, now, loc,
                   lastDump, destroyRet, innerArg, ncalls, env, solo>>

\* the client addresses aws_mem_tracer_destroy hands to the inner allocator's release:
\* the tables are cleaned up with s_destroy_alloc / s_destroy_stacktrace on the values
\* and no destructor on the keys
TeardownReleases(keys) == {}

\* a destroy that returns the bookkeeping allocator
DestroyResultSystem == system_allocator

\* the allocator aws_mem_tracer_destroy returns
DestroyResult == allocator

\* aws_mem_tracer_destroy, called when no facade call is in flight
Destroy ==
    /\ phase = "live"
    /\ Quiescent
    /\ mutex = 0
    /\ \E outcome \in ZeroedOutcomes :
          IF outcome = "live"
          THEN /\ phase' = "destroyed"
               /\ uLive' = uLive \ TeardownReleases(DOMAIN allocs)
               /\ allocs' = <<>>
               /\ stacks' = <<>>
               /\ destroyRet' = DestroyResult
          ELSE /\ phase' = "aborted"
               /\ UNCHANGED <<uLive, allocs, stacks, destroyRet>>
    /\ UNCHANGED <<newArgs, level, frames_per_stack, allocator, system_allocator,
                   allocated, mutex, stack_info, held, now, pc, call, loc,
                   lastDump, innerArg, ncalls, env, solo>>

(* ------------------------ the tracer's own memory ----------------------- *)
\* the kinds of block the tracer allocates for itself
MetaKinds == {"alloc_info", "stack_trace", "allocs_table", "stacks_table",
              "stat_table", "stat_entry", "trace_string", "queue"}

\* the allocator each kind of block is taken from: tracer->system_allocator for the
\* alloc_info (s_alloc_tracer_track), the stack_trace, the two tables of the tracer
\* (s_alloc_tracer_init), the stack_metadata (s_collect_stack_stats) and the trace
\* string (s_collect_stack_trace); tracer->allocator for the stack_info table and the
\* three priority queues of s_alloc_tracer_dump
MetaAllocator(kind) ==
    IF kind \in {"stat_table", "queue"} THEN allocator ELSE system_allocator

\* the allocator each kind of block is released through: aws_default_allocator() in
\* s_destroy_alloc and s_destroy_stacktrace, the allocator of the trace string in
\* s_stack_info_destroy, and for a table, a queue or a string the allocator it was
\* set up with
MetaReleaser(kind) ==
    IF kind \in {"alloc_info", "stack_trace"} THEN "default"
    ELSE IF kind = "stat_entry" THEN MetaAllocator("trace_string")
    ELSE MetaAllocator(kind)

\* the kinds of block that the step of thread t allocates
MetaTaken(t) ==
    IF pc[t] = "idle" /\ pc'[t] \in {"stack_lock", "track_lock"} THEN {"alloc_info"}
    ELSE IF pc[t] = "track" /\ pc'[t] \in {"stack_lock", "track_lock"} THEN {"alloc_info"}
    ELSE IF pc[t] = "stack_cs" /\ stacks' # stacks THEN {"stack_trace"}
    ELSE IF pc[t] = "dump_cs" /\ stack_info' # stack_info
         THEN {"stat_table", "stat_entry", "trace_string"}
    ELSE IF pc[t] = "dump_cs" /\ pc'[t] = "dump_log" /\ level = AWS_MEMTRACE_STACKS
         THEN {"stat_table"}
    ELSE IF pc[t] = "dump_log" /\ pc'[t] = "idle" THEN {"queue"}
    ELSE {}

\* the kinds of block that s_alloc_tracer_init allocates
MetaTakenAtInit ==
    IF phase = "new" /\ phase' = "live"
    THEN (IF level' >= AWS_MEMTRACE_BYTES THEN {"allocs_table"} ELSE {})
         \cup (IF level' = AWS_MEMTRACE_STACKS THEN {"stacks_table"} ELSE {})
    ELSE {}

\* the kinds of block that a step releases
MetaReleased ==
    (IF \E a \in DOMAIN allocs : a \notin DOMAIN allocs' THEN {"alloc_info"} ELSE {})
    \cup (IF \E k \in DOMAIN stacks : k \notin DOMAIN stacks' THEN {"stack_trace"} ELSE {})
    \cup (IF phase = "live" /\ phase' = "destroyed" /\ level >= AWS_MEMTRACE_BYTES
          THEN {"allocs_table"} ELSE {})
    \cup (IF phase = "live" /\ phase' = "destroyed" /\ level = AWS_MEMTRACE_STACKS
          THEN {"stacks_table"} ELSE {})
    \cup (IF \E t \in Threads : pc[t] = "dump_log" /\ pc'[t] = "idle"
          THEN {"queue"} \cup (IF level = AWS_MEMTRACE_STACKS
                               THEN {"stat_table"} \cup
                                    (IF stack_info # <<>> THEN {"stat_entry", "trace_string"}
                                     ELSE {})
                               ELSE {})
          ELSE {})

(* ------------------- what construction has set up --------------------- *)
\* the fields of struct alloc_tracer that s_alloc_tracer_init initialises beyond the
\* zeroes of AWS_ZERO_STRUCT: from level BYTES on the counter, the mutex and the
\* allocation map; at level STACKS also the stack registry
Initialised ==
    (IF level >= AWS_MEMTRACE_BYTES THEN {"allocated", "mutex", "allocs"} ELSE {})
    \cup (IF level = AWS_MEMTRACE_STACKS THEN {"stacks"} ELSE {})

\* the fields a public operation works on: aws_mem_tracer_bytes loads the counter;
\* aws_mem_tracer_count locks the mutex and reads the entry count of the map;
\* s_alloc_tracer_dump tests the level first, then the counter, then locks and walks
\* the map and, at level STACKS, the registry; aws_mem_tracer_destroy locks the mutex
\* and cleans up both tables
UsedBy(op) ==
    CASE op = "bytes" -> {"allocated"}
      [] op = "count" -> {"mutex", "allocs"}
      [] op = "dump" ->
            IF level = AWS_MEMTRACE_NONE THEN {}
            ELSE {"allocated"}
                 \cup (IF DumpSkips THEN {} ELSE {"mutex", "allocs"})
                 \cup (IF ~DumpSkips /\ level = AWS_MEMTRACE_STACKS THEN {"stacks"} ELSE {})
      [] op = "destroy" -> {"mutex", "allocs", "stacks"}
      [] OTHER -> {}

\* the public operations that a step calls
Called ==
    {op \in {"bytes", "count", "dump"} :
        \E t \in Threads : pc[t] = "idle" /\ call'[t] # call[t] /\ call'[t].op = op}
    \cup (IF phase = "live" /\ phase' # "live" /\ Quiescent /\ pc' = pc
          THEN {"destroy"} ELSE {})

(* --------------------------- specification ---------------------------- *)
Next ==
    \/ New
    \/ \E t \in Threads, n \in env.sizes : Acquire(t, n)
    \/ \E t \in Threads, n \in env.sizes : Calloc(t, 2, n)
    \/ \E t \in Threads, p \in Addrs : ReleaseNone(t, p)
    \/ \E t \in Threads, p \in Addrs : Release(t, p)
    \/ \E t \in Threads, p \in Addrs, n \in env.sizes : Realloc(t, p, n)
    \/ \E t \in Threads : ReallocTrack(t)
    \/ \E t \in Threads : TrackStackLock(t)
    \/ \E t \in Threads : TrackStackCreate(t)
    \/ \E t \in Threads : TrackLock(t)
    \/ \E t \in Threads : TrackPut(t)
    \/ \E t \in Threads : UntrackNone(t)
    \/ \E t \in Threads : UntrackLock(t)
    \/ \E t \in Threads : UntrackRemove(t)
    \/ \E t \in Threads : Dump(t)
    \/ \E t \in Threads : DumpLock(t)
    \/ \E t \in Threads : DumpCollect(t)
    \/ \E t \in Threads : DumpLog(t)
    \/ \E t \in Threads : Bytes(t)
    \/ \E t \in Threads : Count(t)
    \/ \E t \in Threads : CountRead(t)
    \/ Destroy

\* the calls a program makes right after it has set the tracer up
NextNew ==
    \/ New
    \/ \E t \in Threads, n \in env.sizes : Acquire(t, n)
    \/ \E t \in Threads : TrackStackLock(t)
    \/ \E t \in Threads : TrackStackCreate(t)
    \/ \E t \in Threads : TrackLock(t)
    \/ \E t \in Threads : TrackPut(t)

\* the calls of a program that allocates, releases and dumps at level NONE or BYTES
NextProbe ==
    \/ New
    \/ \E t \in Threads, n \in env.sizes : Acquire(t, n)
    \/ \E t \in Threads : TrackLock(t)
    \/ \E t \in Threads : TrackPut(t)
    \/ \E t \in Threads, p \in Addrs : Release(t, p)
    \/ \E t \in Threads : UntrackRemove(t)
    \/ \E t \in Threads : Dump(t)
    \/ \E t \in Threads : DumpLock(t)
    \/ \E t \in Threads : DumpCollect(t)
    \/ \E t \in Threads : DumpLog(t)

\* the calls of a program that allocates, releases and dumps
NextLeaky ==
    \/ New
    \/ \E t \in Threads, n \in env.sizes : Acquire(t, n)
    \/ \E t \in Threads : TrackStackLock(t)
    \/ \E t \in Threads : TrackStackCreate(t)
    \/ \E t \in Threads : TrackLock(t)
    \/ \E t \in Threads : TrackPut(t)
    \/ \E t \in Threads, p \in LeakAddrs : Release(t, p)
    \/ \E t \in Threads : UntrackRemove(t)
    \/ \E t \in Threads : Dump(t)
    \/ \E t \in Threads : DumpLock(t)
    \/ \E t \in Threads : DumpCollect(t)
    \/ \E t \in Threads : DumpLog(t)

\* a thread of the paired load acquires when it holds nothing
PairedAcquire(t, n) ==
    /\ call[t].op # "acquire"
    /\ Acquire(t, n)

\* a thread of the paired load releases what its last acquire returned
PairedRelease(t) ==
    /\ call[t].op = "acquire"
    /\ Release(t, call[t].ret)

NextPaired ==
    \/ New
    \/ \E t \in Threads, n \in env.sizes : PairedAcquire(t, n)
    \/ \E t \in Threads : TrackStackLock(t)
    \/ \E t \in Threads : TrackStackCreate(t)
    \/ \E t \in Threads : TrackLock(t)
    \/ \E t \in Threads : TrackPut(t)
    \/ \E t \in Threads : PairedRelease(t)
    \/ \E t \in Threads : UntrackRemove(t)

Spec == Init /\ [][Next]_vars
SpecSeq == InitSeq /\ [][Next]_vars
SpecNew == InitNew /\ [][NextNew]_vars
SpecPaired == InitPaired /\ [][NextPaired]_vars
SpecProbe == InitProbe /\ [][NextProbe]_vars
SpecLeaky == InitLeaky /\ [][NextLeaky]_vars

\* the steps a thread takes inside a call it has started: the scheduler runs every
\* thread that can take a step, and a thread waiting for the mutex gets it once it
\* stays free
ThreadStep(t) ==
    \/ ReallocTrack(t)
    \/ TrackStackLock(t)
    \/ TrackStackCreate(t)
    \/ TrackLock(t)
    \/ TrackPut(t)
    \/ UntrackNone(t)
    \/ UntrackLock(t)
    \/ UntrackRemove(t)
    \/ DumpLock(t)
    \/ DumpCollect(t)
    \/ DumpLog(t)
    \/ CountRead(t)
\* two threads at level STACKS that allocate, release, dump and count
NextFair ==
    \/ New
    \/ \E t \in Threads, n \in env.sizes : Acquire(t, n)
    \/ \E t \in Threads, n \in env.sizes : Calloc(t, 2, n)
    \/ \E t \in Threads, p \in Addrs : Release(t, p)
    \/ \E t \in Threads : TrackStackLock(t)
    \/ \E t \in Threads : TrackStackCreate(t)
    \/ \E t \in Threads : TrackLock(t)
    \/ \E t \in Threads : TrackPut(t)
    \/ \E t \in Threads : UntrackRemove(t)
    \/ \E t \in Threads : Dump(t)
    \/ \E t \in Threads : DumpLock(t)
    \/ \E t \in Threads : DumpCollect(t)
    \/ \E t \in Threads : DumpLog(t)
    \/ \E t \in Threads : Count(t)
    \/ \E t \in Threads : CountRead(t)
SpecFair == InitFair /\ [][NextFair]_vars /\ \A t \in Threads : WF_vars(ThreadStep(t))

(* ------------------------------- claims ------------------------------- *)
\* C1: at level BYTES or STACKS, whenever no facade call is in flight, the byte
\* counter equals the sum of the sizes recorded in the allocation map, whatever the
\* interleaving of acquire, calloc, release and realloc
C1_CounterEqualsMapSum ==
    (phase = "live" /\ ~TrackSkips /\ Quiescent) => allocated = SumSizes(allocs)

\* a realloc of one thread and an allocation of another have both returned, and two
\* blocks are recorded
C1_Witness ==
    /\ phase = "live"
    /\ ~TrackSkips
    /\ Quiescent
    /\ allocated > 0
    /\ Cardinality(DOMAIN allocs) = 2
    /\ \E t, u \in Threads :
          /\ t # u
          /\ call[t].op = "realloc"
          /\ call[u].op \in {"acquire", "calloc"}

\* C2: when every thread of the paired load has released what it acquired, the byte
\* counter and the entry count of the allocation map are both zero
C2_PairedLoadBalances ==
    (phase = "live" /\ Quiescent /\ \A t \in Threads : call[t].op # "acquire")
        => (allocated = 0 /\ EntryCount = 0)

\* every thread has done its pairs, at level STACKS, and the calls overlapped or not
C2_Witness ==
    /\ phase = "live"
    /\ level = AWS_MEMTRACE_STACKS
    /\ Quiescent
    /\ ncalls = env.calls
    /\ \A t \in Threads : call[t].op = "release"
    /\ stacks # <<>>

\* C3: a realloc of a block tracked with size old, run with no other call in flight,
\* changes the byte counter by new - old, leaves the entry count as it was, and
\* leaves the block recorded under the returned address only, with size new
C3_ReallocConserves ==
    (phase = "live" /\ ~TrackSkips /\ solo.op = "realloced" /\ solo.tracked)
        => LET q == solo.ret
           IN /\ allocated = solo.bytes + solo.size - solo.old
              /\ EntryCount = solo.count
              /\ q \in DOMAIN allocs
              /\ allocs[q].size = solo.size
              /\ (q # solo.ptr => solo.ptr \notin DOMAIN allocs)

\* a tracked block was moved by a realloc that changed its size
C3_Witness ==
    /\ phase = "live"
    /\ ~TrackSkips
    /\ solo.op = "realloced"
    /\ solo.tracked
    /\ solo.ret # solo.ptr
    /\ solo.size # solo.old

\* C4: with no other call in flight, an acquire followed by the release of the
\* address it returned puts the byte counter and the entry count back to what they
\* were before the acquire, for every size
C4_AcquireReleaseRestores ==
    (phase = "live" /\ solo.op = "released")
        => (allocated = solo.bytes /\ EntryCount = solo.count)

\* a zero-size acquire/release pair has run on a tracer that already held bytes
C4_Witness ==
    /\ phase = "live"
    /\ ~TrackSkips
    /\ solo.op = "released"
    /\ solo.size = 0
    /\ solo.bytes > 0
    /\ solo.count > 0

\* the step in which thread t leaves the untrack of a release
ReleaseUntracks(t) ==
    pc[t] = "untrack_cs" /\ call[t].op = "release" /\ pc'[t] = "idle"

\* C5: the release of an address that the allocation map does not hold goes through
\* without abort, changes neither the byte counter nor the allocation map nor the
\* stack registry, still releases the address to the inner allocator, and the
\* acquire/release pairs that follow balance
C5_ForeignRelease ==
    /\ [][\A t \in Threads :
             (ReleaseUntracks(t) /\ loc[t].ptr \notin DOMAIN allocs)
                => /\ phase' = "live"
                   /\ allocated' = allocated
                   /\ allocs' = allocs
                   /\ stacks' = stacks
                   /\ uLive' = uLive \ {loc[t].ptr}]_vars
    /\ [](phase = "live" /\ env.pre # {} /\ env.pre \cap uLive = {}
              /\ solo.op = "released"
            => (allocated = solo.bytes /\ EntryCount = solo.count))

\* the address allocated before the tracer was installed has been released through
\* the facade, and an acquire/release pair has run after it
C5_Witness ==
    /\ phase = "live"
    /\ ~TrackSkips
    /\ env.pre # {}
    /\ uLive = {}
    /\ ncalls = env.calls
    /\ solo.op = "released"

\* the inner call a pass-through facade call makes, and the result it returns
PassThrough(c, returned) ==
    CASE c.op = "acquire" ->
            c.inner = [NoInner EXCEPT !.f = "acquire", !.a1 = c.size, !.r = c.ret]
      [] c.op = "calloc" ->
            c.inner = [NoInner EXCEPT !.f = "calloc", !.a1 = c.num, !.a2 = c.size,
                                      !.r = c.ret]
      [] c.op = "release" ->
            c.inner = [NoInner EXCEPT !.f = "release", !.a1 = c.ptr]
      [] c.op = "realloc" ->
            /\ c.inner.f = "realloc"
            /\ c.inner.a1 = c.ptr
            /\ c.inner.a2 = c.old
            /\ c.inner.a3 = c.size
            /\ (returned => c.ret = c.inner.r)
      [] OTHER -> TRUE

\* C6: at level NONE every acquire, calloc, release and realloc makes the same call
\* on the inner allocator with the same arguments and returns its result; no
\* allocation record and no stack record exists and the byte counter is 0
C6_PassThroughAtNone ==
    (phase = "live" /\ level = AWS_MEMTRACE_NONE)
        => /\ allocs = <<>>
           /\ stacks = <<>>
           /\ allocated = 0
           /\ \A t \in Threads : PassThrough(call[t], pc[t] = "idle")
           /\ (Quiescent => uLive = DOMAIN held)

\* at level NONE a realloc has moved a block and another thread has acquired one
C6_Witness ==
    /\ phase = "live"
    /\ level = AWS_MEMTRACE_NONE
    /\ Quiescent
    /\ \E t \in Threads : call[t].op = "realloc" /\ call[t].ret # call[t].ptr
    /\ \E t \in Threads : call[t].op \in {"acquire", "calloc"} /\ call[t].size > 0

\* C7: destroy returns the inner allocator that was passed to new, and releases no
\* address to the inner allocator, so what the clients leaked stays allocated
C7_DestroyReturnsInner ==
    [][(phase = "live" /\ phase' = "destroyed")
          => (destroyRet' = innerArg /\ uLive' = uLive)]_vars

\* a tracer was destroyed while the allocation map still held client addresses
C7_Witness ==
    /\ phase = "destroyed"
    /\ level # AWS_MEMTRACE_NONE
    /\ allocated > 0
    /\ uLive = Addrs
    /\ destroyRet \in Inners

\* the step in which thread t calls dump
DumpCalled(t) ==
    /\ pc[t] = "idle"
    /\ call'[t] # call[t]
    /\ call'[t].op = "dump"

\* C8: a dump called at level NONE or with a byte counter of zero logs nothing, does
\* not go for the mutex and changes nothing of the tracer, also when the allocation
\* map holds entries of size zero
C8_DumpNoOp ==
    [][\A t \in Threads :
          (DumpCalled(t) /\ (level = AWS_MEMTRACE_NONE \/ allocated = 0))
             => /\ pc' = pc
                /\ mutex' = mutex
                /\ lastDump' = lastDump
                /\ <<allocated, allocs, stacks, stack_info, uLive, held, phase>>' =
                   <<allocated, allocs, stacks, stack_info, uLive, held, phase>>]_vars

\* a dump returned at once although the allocation map holds an entry
C8_Witness ==
    /\ phase = "live"
    /\ level = AWS_MEMTRACE_STACKS
    /\ allocated = 0
    /\ allocs # <<>>
    /\ \E t \in Threads : call[t].op = "dump" /\ call[t].ret = 0 /\ pc[t] = "idle"

\* thread t takes a step of a dump
DumpSteps(t) ==
    \/ DumpCalled(t)
    \/ (pc[t] \in {"dump_lock", "dump_cs", "dump_log"} /\ pc'[t] # pc[t])

\* what a dump logged
Content(d) == <<d.bytes, d.count, d.leaks, d.sections, d.by_size, d.by_count>>

\* C9: no step of a dump changes the byte counter, the allocation map or the stack
\* registry; the stat map is empty when the dump returns; and a dump that follows a
\* dump with no track or untrack step in between logs the same content
C9_DumpIsReadOnly ==
    [][\A t \in Threads :
          (DumpSteps(t) /\ phase' = "live")
             => /\ allocated' = allocated
                /\ allocs' = allocs
                /\ stacks' = stacks
                /\ (pc'[t] = "idle" => stack_info' = <<>>)
                /\ (pc[t] = "dump_log" /\ lastDump.valid
                       => Content(lastDump') = Content(lastDump))]_vars

\* a second dump in a row has logged a leak with its stack
C9_Witness ==
    /\ phase = "live"
    /\ level = AWS_MEMTRACE_STACKS
    /\ lastDump.valid
    /\ lastDump.again
    /\ lastDump.by_size # <<>>
    /\ lastDump.leaks # <<>>
    /\ stack_info = <<>>

\* C10: at effective level STACKS the frame budget is 8 if 0 was requested, 128 if
\* more than 128 was requested, else what was requested; so it is in 1 .. 128
C10_FrameBudget ==
    (phase # "new" /\ level = AWS_MEMTRACE_STACKS)
        => /\ frames_per_stack =
                 (IF newArgs.frames_per_stack = 0 THEN 8
                  ELSE IF newArgs.frames_per_stack > 128 THEN 128
                  ELSE newArgs.frames_per_stack)
           /\ frames_per_stack \in 1 .. 128

\* a STACKS tracer was asked for more than 128 frames
C10_Witness ==
    /\ phase = "live"
    /\ level = AWS_MEMTRACE_STACKS
    /\ newArgs.frames_per_stack > 128
    /\ frames_per_stack = 128

\* C11: when the probe at construction finds no frame, a request for STACKS gives
\* level BYTES and a request for BYTES or NONE is kept; then no stack is captured or
\* registered, every record has fingerprint zero, and a dump logs no per-stack section
C11_ProbeClamps ==
    (phase # "new" /\ newArgs.probe = 0)
        => /\ level = (IF newArgs.level = AWS_MEMTRACE_STACKS
                       THEN AWS_MEMTRACE_BYTES ELSE newArgs.level)
           /\ stacks = <<>>
           /\ stack_info = <<>>
           /\ \A a \in DOMAIN allocs : allocs[a].stack = 0
           /\ \A t \in Threads : loc[t].depth = 0 /\ loc[t].id = 0 /\ loc[t].alloc.stack = 0
           /\ ~lastDump.sections
           /\ lastDump.by_size = <<>>
           /\ lastDump.by_count = <<>>

\* STACKS was requested, the probe found nothing, and a dump has logged a leak
C11_Witness ==
    /\ phase = "live"
    /\ newArgs.probe = 0
    /\ newArgs.level = AWS_MEMTRACE_STACKS
    /\ level = AWS_MEMTRACE_BYTES
    /\ lastDump.valid
    /\ lastDump.leaks # <<>>

\* the lines of a section are the values of the table, each as often as the table
\* holds it
OncePerEntry(lines, table) ==
    /\ Len(lines) = Cardinality(DOMAIN table)
    /\ \A k \in DOMAIN table :
          Cardinality({i \in 1 .. Len(lines) : lines[i] = table[k]})
              = Cardinality({j \in DOMAIN table : table[j] = table[k]})

\* C12: the section "Stacks by bytes leaked" of a dump at level STACKS has every entry
\* of the stat map exactly once, an entry with more bytes before one with fewer
C12_StacksByBytes ==
    (lastDump.logged /\ lastDump.sections)
        => /\ OncePerEntry(lastDump.by_size, lastDump.info)
           /\ \A i, j \in 1 .. Len(lastDump.by_size) :
                 i < j => lastDump.by_size[i].size >= lastDump.by_size[j].size

\* a dump has ranked two stacks that leak different numbers of bytes
C12_Witness ==
    /\ lastDump.logged
    /\ lastDump.sections
    /\ Len(lastDump.by_size) = 2
    /\ lastDump.by_size[1].size > lastDump.by_size[2].size

\* C13: the section "Stacks by number of leaks" of a dump at level STACKS has every
\* entry of the stat map exactly once, an entry with more allocations before one with
\* fewer
C13_StacksByCount ==
    (lastDump.logged /\ lastDump.sections)
        => /\ OncePerEntry(lastDump.by_count, lastDump.info)
           /\ \A i, j \in 1 .. Len(lastDump.by_count) :
                 i < j => lastDump.by_count[i].count >= lastDump.by_count[j].count

\* a dump has ranked two stacks that leak different numbers of allocations
C13_Witness ==
    /\ lastDump.logged
    /\ lastDump.sections
    /\ Len(lastDump.by_count) = 2
    /\ lastDump.by_count[1].count > lastDump.by_count[2].count

\* C14: the section "Leaks in order of allocation" of a dump has one ALLOC line per
\* entry of the allocation map, a record with an earlier timestamp before one with a
\* later timestamp
C14_LeaksByTime ==
    lastDump.logged
        => /\ OncePerEntry([i \in 1 .. Len(lastDump.leaks) |-> lastDump.leaks[i].alloc],
                           lastDump.map)
           /\ \A i \in 1 .. Len(lastDump.leaks) :
                 lastDump.leaks[i].size = lastDump.leaks[i].alloc.size
           /\ \A i, j \in 1 .. Len(lastDump.leaks) :
                 i < j => lastDump.leaks[i].alloc.time <= lastDump.leaks[j].alloc.time

\* a dump has listed three leaks, the one at the lowest address being the latest
C14_Witness ==
    /\ lastDump.logged
    /\ Len(lastDump.leaks) = 3
    /\ lastDump.leaks[1].alloc.time < lastDump.leaks[3].alloc.time
    /\ \A a \in DOMAIN lastDump.map :
          lastDump.map[CHOOSE m \in DOMAIN lastDump.map :
                          \A x \in DOMAIN lastDump.map : m <= x].time >= lastDump.map[a].time

\* the places of a call where it waits for the mutex, and where it holds it
LockWaits == {"stack_lock", "track_lock", "untrack", "dump_lock"}
LockHeld == {"stack_cs", "track_cs", "untrack_cs", "dump_cs", "dump_log", "count_cs"}

\* a thread asks for the mutex only when it does not hold it, and holds it only
\* inside the critical section of a call that has not returned
LockDiscipline ==
    \A t \in Threads :
        /\ pc[t] \in LockWaits => mutex # t
        /\ mutex = t => pc[t] \in LockHeld
        /\ pc[t] \in LockHeld => mutex = t \/ phase = "aborted"

\* C15: facade calls, dumps and live_count run concurrently without deadlock and
\* without a leaked lock: no thread asks for the mutex while it holds it, no thread
\* holds it after its call has returned, and every call that has started returns
C15_CallsReturn ==
    /\ []LockDiscipline
    /\ \A t \in Threads : (pc[t] # "idle") ~> (pc[t] = "idle")

\* C16: a track of an address that is already a key of the allocation map ends the
\* process: the step of the track leaves the map alone and the call does not return;
\* no step replaces a record, and a step that drops one subtracts its size
C16_DuplicateIsFatal ==
    [][/\ \A t \in Threads :
             (phase = "live" /\ pc[t] = "track_cs" /\ loc[t].ptr \in DOMAIN allocs)
                 => /\ allocs' = allocs
                    /\ allocated' = allocated
                    /\ pc'[t] = "track_cs"
                    /\ (mutex' # mutex \/ phase' # phase) => phase' = "aborted"
       /\ \A a \in DOMAIN allocs :
             IF a \in DOMAIN allocs'
             THEN allocs'[a] = allocs[a]
             ELSE phase' = "destroyed"
                    \/ allocated' = allocated - allocs[a].size]_vars

\* a track has found its address in the map and the process has ended
C16_Witness ==
    /\ phase = "aborted"
    /\ \E t \in Threads :
          /\ pc[t] = "track_cs"
          /\ mutex = t
          /\ loc[t].ptr \in DOMAIN allocs
          /\ allocs[loc[t].ptr] # loc[t].alloc

\* C17: at level STACKS, in every state, also between the steps of concurrent
\* tracks, the fingerprint of every record of the allocation map is zero or a key of
\* the stack registry
C17_FingerprintsRegistered ==
    level = AWS_MEMTRACE_STACKS
        => \A a \in DOMAIN allocs :
              allocs[a].stack # 0 => allocs[a].stack \in DOMAIN stacks

\* a record with a registered stack is in the map while another thread is between
\* registering its stack and inserting its record
C17_Witness ==
    /\ level = AWS_MEMTRACE_STACKS
    /\ \E a \in DOMAIN allocs : allocs[a].stack # 0 /\ allocs[a].stack \in DOMAIN stacks
    /\ \E t \in Threads : pc[t] \in {"track_lock", "stack_cs"} /\ loc[t].alloc.stack # 0

\* C18: from construction to destroy the stack registry only grows: no step removes
\* a key or changes the depth or the frames of an entry, also not the track that sees
\* a fingerprint again; a key enters only as the fingerprint that a track has just
\* captured, one at a time, so the registry has at most as many entries as distinct
\* fingerprints were seen
C18_RegistryGrows ==
    [][phase' # "destroyed"
          => /\ \A k \in DOMAIN stacks : k \in DOMAIN stacks' /\ stacks'[k] = stacks[k]
             /\ \A k \in DOMAIN stacks' \ DOMAIN stacks :
                   /\ DOMAIN stacks' = DOMAIN stacks \cup {k}
                   /\ k # 0
                   /\ \E t \in Threads : pc[t] = "stack_cs" /\ loc[t].id = k]_vars

\* two stacks are registered, and a track has just seen one of them again
C18_Witness ==
    /\ Cardinality(DOMAIN stacks) = 2
    /\ \E t \in Threads, a \in DOMAIN allocs :
          /\ pc[t] = "track_lock"
          /\ loc[t].alloc.stack # 0
          /\ loc[t].alloc.stack = allocs[a].stack

\* C19: every block of the tracer's own memory is released through the allocator it
\* was taken from: the records and the stack records, taken from the bookkeeping
\* allocator, go back to it on untrack and at teardown, whichever allocator that is
C19_ReleasedWhereAllocated ==
    [][\A kind \in MetaReleased : MetaReleaser(kind) = MetaAllocator(kind)]_vars

\* C20: every block of the tracer's own memory is taken from the bookkeeping
\* allocator and none from the inner allocator: the records, the stack records, the
\* tables, and what a dump builds (the stat map, its entries, the priority queues)
C20_MetadataFromBookkeeper ==
    [][/\ \A kind \in MetaTakenAtInit :
             MetaAllocator(kind)' = system_allocator' /\ MetaAllocator(kind)' # allocator'
       /\ \A t \in Threads : \A kind \in MetaTaken(t) :
             MetaAllocator(kind) = system_allocator /\ MetaAllocator(kind) # allocator]_vars

\* C21: at level STACKS a track for which the stack walker returns no frame still
\* tracks the block: the counter goes up by the size, the registry stays as it is, and
\* the record inserted under the address has that size and fingerprint zero
C21_FailedCaptureTracked ==
    [][level = AWS_MEMTRACE_STACKS
          => \A t \in Threads :
                /\ (pc[t] \in {"idle", "track"} /\ pc'[t] \in {"stack_lock", "track_lock"}
                       /\ loc'[t].depth = 0)
                      => /\ pc'[t] = "track_lock"
                         /\ allocated' = allocated + loc'[t].size
                         /\ loc'[t].alloc.size = loc'[t].size
                         /\ loc'[t].alloc.stack = 0
                         /\ stacks' = stacks
                /\ (pc[t] = "track_cs" /\ pc'[t] = "idle" /\ loc[t].alloc.stack = 0)
                      => /\ loc[t].ptr \in DOMAIN allocs'
                         /\ allocs'[loc[t].ptr].size = loc[t].size
                         /\ allocs'[loc[t].ptr].stack = 0
                         /\ allocated' = allocated
                         /\ stacks' = stacks]_vars

\* at level STACKS a block of MaxSize bytes is tracked without a stack next to a
\* block with one
C21_Witness ==
    /\ level = AWS_MEMTRACE_STACKS
    /\ Quiescent
    /\ stacks # <<>>
    /\ \E a \in DOMAIN allocs : allocs[a].stack = 0 /\ allocs[a].size = MaxSize
    /\ allocated = SumSizes(allocs)

\* C22: a dump at level STACKS runs to its end in every state of the tracer: every
\* entry of the stat map has its stack record in the registry when the dump turns the
\* frames into symbols, also when a live record has fingerprint zero, and no dump
\* ends in a fatal assertion
C22_DumpCompletes ==
    /\ level = AWS_MEMTRACE_STACKS => DOMAIN stack_info \subseteq DOMAIN stacks
    /\ \A t \in Threads : ~(phase = "aborted" /\ pc[t] = "dump_cs")

\* C23: a track at level STACKS whose capture has d >= 1 frames and whose stack is new
\* stores a stack record of depth d - 2, between 0 and frames_per_stack, with exactly
\* the frames after the two skipped ones; with d = 1 nothing underflows and the
\* process goes on
C23_DepthNeverUnderflows ==
    [][\A t \in Threads :
          (/\ pc[t] = "stack_cs"
           /\ pc'[t] # "stack_cs"
           /\ loc[t].depth >= 1
           /\ loc[t].id \notin DOMAIN stacks)
              => /\ phase' = "live"
                 /\ loc[t].id \in DOMAIN stacks'
                 /\ stacks'[loc[t].id].depth = loc[t].depth - FRAMES_TO_SKIP
                 /\ stacks'[loc[t].id].depth >= 0
                 /\ stacks'[loc[t].id].depth <= frames_per_stack
                 /\ stacks'[loc[t].id].frames
                       = SubSeq(loc[t].frames, FRAMES_TO_SKIP + 1, loc[t].depth)]_vars

\* C24: a thread reads or writes the allocation map, the stack registry or the entry
\* count only while it holds the mutex, in track, untrack, dump, live_count and
\* destroy, and no two threads are in such an access at the same time
C24_AccessUnderMutex ==
    /\ [](\A t \in Threads : pc[t] \in LockHeld => mutex = t)
    /\ [](\A t, u \in Threads : (pc[t] \in LockHeld /\ pc[u] \in LockHeld) => t = u)
    /\ [][/\ ((allocs' # allocs \/ stacks' # stacks) /\ phase' # "destroyed")
               => \E t \in Threads : mutex = t /\ pc[t] \in LockHeld /\ pc'[t] # pc[t]
          /\ (phase = "live" /\ phase' = "destroyed")
               => mutex = 0 /\ \A t \in Threads : pc[t] \notin LockHeld]_vars

\* one thread is inside the map while the other waits for the mutex
C24_Witness ==
    /\ phase = "live"
    /\ \E t, u \in Threads :
          /\ pc[t] \in {"track_cs", "untrack_cs", "dump_cs", "count_cs"}
          /\ mutex = t
          /\ pc[u] \in LockWaits
          /\ allocs # <<>>

\* the live records of the table that carry fingerprint id
RecordsOf(table, id) == {a \in DOMAIN table : table[a].stack = id}

\* C25: after the tally pass of a dump at level STACKS the stat map has one entry per
\* fingerprint of the allocation map; the count of an entry is the number of live
\* records with its fingerprint and its bytes are the sum of their sizes; over all
\* entries the counts add up to the entry count and the bytes to the sum of all sizes
C25_TallyMatchesMap ==
    (level = AWS_MEMTRACE_STACKS
        /\ \E t \in Threads : pc[t] = "dump_log" \/ (pc[t] = "dump_cs" /\ phase = "aborted"))
        => /\ DOMAIN stack_info = {allocs[a].stack : a \in DOMAIN allocs}
           /\ \A id \in DOMAIN stack_info :
                 /\ stack_info[id].count = Cardinality(RecordsOf(allocs, id))
                 /\ stack_info[id].size
                       = SumSizes([a \in RecordsOf(allocs, id) |-> allocs[a]])
           /\ SumSizes([id \in DOMAIN stack_info |-> [size |-> stack_info[id].count]])
                 = Cardinality(DOMAIN allocs)
           /\ SumSizes(stack_info) = SumSizes(allocs)

\* a dump has tallied two stacks, one of them with two live records of different sizes
C25_Witness ==
    /\ level = AWS_MEMTRACE_STACKS
    /\ \E t \in Threads : pc[t] = "dump_log"
    /\ Cardinality(DOMAIN stack_info) = 2
    /\ \E id \in DOMAIN stack_info :
          /\ stack_info[id].count = 2
          /\ \E a, b \in RecordsOf(allocs, id) : allocs[a].size # allocs[b].size

\* the records of a sequence that carry timestamp tm, in their order
RECURSIVE AtTime(_, _)
AtTime(records, tm) ==
    IF records = <<>> THEN <<>>
    ELSE IF Head(records).time = tm THEN <<Head(records)>> \o AtTime(Tail(records), tm)
    ELSE AtTime(Tail(records), tm)

\* the records of a table in the order in which the dump pushes them
Inserted(table) ==
    LET keys == KeysInOrder(DOMAIN table) IN [k \in 1 .. Len(keys) |-> table[keys[k]]]

C27_NoTrackOfTrackedAddress ==
    \A t \in Threads : pc[t] = "track_cs" => loc[t].ptr \notin DOMAIN allocs

\* C28: live_count, live_bytes, dump and destroy work only on what construction has
\* initialised for the level: none of them locks a mutex or reads or cleans up a table
\* that s_alloc_tracer_init has not set up, at level NONE and at level BYTES
C28_OnlyInitialisedState ==
    [][\A op \in Called :
          UsedBy(op) \cap {"mutex", "allocs", "stacks"} \subseteq Initialised]_vars

\* the sum of the sizes on a sequence of ALLOC lines
RECURSIVE LinesTotal(_)
LinesTotal(lines) ==
    IF lines = <<>> THEN 0 ELSE Head(lines).size + LinesTotal(Tail(lines))

\* C29: a dump that runs among concurrent acquires and releases is consistent with
\* itself: the byte total of its summary line is the sum of the sizes on its ALLOC
\* lines, and the allocation count of its summary line is the number of ALLOC lines
C29_SummaryMatchesListing ==
    lastDump.logged =>
        /\ lastDump.bytes = LinesTotal(lastDump.leaks)
        /\ lastDump.count = Len(lastDump.leaks)

\* the threads inside s_alloc_tracer_track between the fetch_add and the insertion
TrackPending ==
    {t \in Threads : pc[t] \in {"stack_lock", "stack_cs", "track_lock", "track_cs"}}

\* the bytes that those threads have added for records not yet in the map
RECURSIVE PendingBytes(_)
PendingBytes(ts) ==
    IF ts = {} THEN 0
    ELSE LET t == CHOOSE x \in ts : TRUE
         IN loc[t].alloc.size + PendingBytes(ts \ {t})

\* C30: live_bytes never underflows, also in the middle of concurrent track and untrack
\* calls: while the tables exist the counter is at least the sum of the sizes of the
\* records in the map plus the sizes that running tracks have added for records they
\* have not inserted yet; and a step that lowers the counter removes exactly one record from the
\* map and lowers the counter by the size of that record, so that a size is only
\* subtracted after track added it and is never subtracted twice
C30_BytesNeverUnderflow ==
    /\ [](/\ allocated >= 0
          /\ phase # "destroyed" =>
                allocated >= SumSizes(allocs) + PendingBytes(TrackPending))
    /\ [][allocated' < allocated =>
             \E k \in DOMAIN allocs :
                /\ DOMAIN allocs' = DOMAIN allocs \ {k}
                /\ \A a \in DOMAIN allocs' : allocs'[a] = allocs[a]
                /\ allocated' = allocated - allocs[k].size]_vars

\* C30 witness: a reallocate has untracked a record of more than zero bytes while another
\* thread is between the fetch_add and the insertion of its own record
C30_Witness ==
    /\ phase = "live"
    /\ \E t \in Threads, u \in TrackPending :
          /\ t # u
          /\ pc[t] = "track"
          /\ call[t].op = "realloc"
          /\ call[t].old > 0
          /\ call[t].ptr \notin DOMAIN allocs
          /\ loc[u].alloc.size > 0
          /\ allocated = SumSizes(allocs) + loc[u].alloc.size

====
